---- MODULE Spec2Model ----
(***************************************************************************)
(* Model of voxelle's streaming synthesis pipeline                        *)
(* (src/src/voxelle/__init__.py): the text segmenter text_chunker, the    *)
(* playback sink stream, and the session coroutine stream_text_to_speech  *)
(* with its inbound listener listen.                                      *)
(*                                                                         *)
(* A text is a sequence of characters; a character is the one-character   *)
(* string itself, except the three non-ASCII characters of the seventh    *)
(* splitter, which are named by their code points ("U+00E2", "U+20AC",    *)
(* "U+201D").  Audio bytes are integers 0..255.                           *)
(***************************************************************************)
EXTENDS Integers, Sequences, FiniteSets, TLC

VARIABLES
    source,      \* text fragments the input iterable has still to produce
    fed,         \* history: fragments text_chunker has consumed, in order
    buffer,      \* text_chunker's local `buffer`
    emitted,     \* history: chunks text_chunker has yielded, in order
    chunkerPc,   \* "loop" (in the async for), "yield" (suspended at the
                 \* yield of line 175 or 178), "flush" (suspended at the
                 \* yield of line 184) or "done" (generator finished)
    mainPc,      \* position of stream_text_to_speech (the main task)
    mainErr,     \* exception the main task is propagating ("none" if none)
    pending,     \* the chunk text_chunker yielded that is not yet sent
    conn,        \* the websocket: "none", "open" or "closed"
    sent,        \* history: messages passed to websocket.send, in order
    inbox,       \* messages the remote sent that recv has not yet returned
    keyRejected, \* the remote has rejected the API key of the handshake
    received,    \* history: messages recv returned to listen, in order
    lisPc,       \* position of listen_task, i.e. stream(listen())
    lisEnd,      \* how listen's loop ended: "none", "final" or "closed"
    lisErr,      \* exception that ended listen_task ("none" if none)
    cur,         \* the audio chunk stream() is writing (<<>> if none)
    file,        \* bytes appended to the output file
    fileState,   \* "none", "open" or "closed"
    player,      \* bytes written to mpv's stdin
    stdinState,  \* mpv's stdin pipe: "none", "open" or "closed"
    playerExited,\* mpv has exited by itself (writes to its stdin fail)
    closeLog     \* history: the close steps stream() has run, in order

chunkerVars == <<source, fed, buffer, emitted, chunkerPc>>

mainVars == <<mainPc, mainErr, pending, sent>>

netVars == <<conn, inbox, keyRejected>>

listenVars == <<received, lisPc, lisEnd, lisErr>>

sinkVars == <<cur, file, fileState, player, stdinState, closeLog>>

sessionVars == <<mainVars, netVars, listenVars, sinkVars, playerExited>>

vars == <<chunkerVars, sessionVars>>

----------------------------------------------------------------------------
(* Sequence helpers *)

RECURSIVE Flatten(_)
Flatten(ss) == IF ss = <<>> THEN <<>> ELSE Head(ss) \o Flatten(Tail(ss))

\* str.endswith(suffix)
EndsWith(s, suf) ==
    /\ Len(suf) <= Len(s)
    /\ SubSeq(s, Len(s) - Len(suf) + 1, Len(s)) = suf

\* str.startswith(prefix)
StartsWith(s, pre) ==
    /\ Len(pre) <= Len(s)
    /\ SubSeq(s, 1, Len(pre)) = pre

RECURSIVE SeqsUpTo(_, _)
SeqsUpTo(S, n) ==
    IF n = 0 THEN {<<>>}
    ELSE LET shorter == SeqsUpTo(S, n - 1)
         IN  shorter \cup {Append(s, x) : s \in shorter, x \in S}

----------------------------------------------------------------------------
(* text_chunker *)

\* The tuple `splitters`; the seventh entry is a three-character string.
splitters ==
    { <<".">>, <<",">>, <<"?">>, <<"!">>, <<";">>, <<":">>,
      <<"U+00E2", "U+20AC", "U+201D">>,
      <<"-">>, <<"(">>, <<")">>, <<"[">>, <<"]">>, <<"}">>, <<" ">> }

\* str.endswith / str.startswith with a tuple of candidates
EndsWithAny(s, cands) == \E c \in cands : EndsWith(s, c)
StartsWithAny(s, cands) == \E c \in cands : StartsWith(s, c)

\* Mutant of TextChunkerStep: the second branch keeps the whole fragment.
TextChunkerStepKeepsFirst(buf, text) ==
    IF EndsWithAny(buf, splitters)
    THEN [out |-> << buf \o <<" ">> >>, buffer |-> text]
    ELSE IF StartsWithAny(text, splitters)
    THEN [out |-> << buf \o <<text[1]>> \o <<" ">> >>, buffer |-> text]
    ELSE [out |-> <<>>, buffer |-> buf \o text]

\* One iteration of the async for: the chunks yielded (none or one) and the
\* new buffer.
TextChunkerStep(buf, text) ==
    IF EndsWithAny(buf, splitters)
    THEN [out |-> << buf \o <<" ">> >>, buffer |-> text]
    ELSE IF StartsWithAny(text, splitters)
    THEN [out |-> << buf \o <<text[1]>> \o <<" ">> >>, buffer |-> Tail(text)]
    ELSE [out |-> <<>>, buffer |-> buf \o text]

\* After the loop: the chunks yielded at end of input.
TextChunkerFlush(buf) ==
    IF buf /= <<>> THEN << buf \o <<" ">> >> ELSE <<>>

\* The generator resumed after a yield.  After the yield of line 175 or 178
\* the assignment to buffer that follows it runs (text is the fragment taken
\* last, buf still the buffer the branch was chosen on) and the generator is
\* back in the async for; after the yield of line 184 the generator ends.
ResumeGenerator(pc, buf, taken) ==
    IF pc = "yield"
    THEN [pc |-> "loop",
          buffer |-> TextChunkerStep(buf, taken[Len(taken)]).buffer]
    ELSE [pc |-> "done", buffer |-> buf]

\* The whole generator run on a list of fragments, as a pure function.
RECURSIVE TextChunkerFrom(_, _)
TextChunkerFrom(buf, frags) ==
    IF frags = <<>> THEN TextChunkerFlush(buf)
    ELSE LET r == TextChunkerStep(buf, Head(frags))
         IN  r.out \o TextChunkerFrom(r.buffer, Tail(frags))

TextChunker(frags) == TextChunkerFrom(<<>>, frags)

----------------------------------------------------------------------------
(* base64.b64decode (binascii.a2b_base64, non-strict), as listen calls it *)

B64Chars ==
    << "A", "B", "C", "D", "E", "F", "G", "H", "I", "J", "K", "L", "M",
       "N", "O", "P", "Q", "R", "S", "T", "U", "V", "W", "X", "Y", "Z",
       "a", "b", "c", "d", "e", "f", "g", "h", "i", "j", "k", "l", "m",
       "n", "o", "p", "q", "r", "s", "t", "u", "v", "w", "x", "y", "z",
       "0", "1", "2", "3", "4", "5", "6", "7", "8", "9", "+", "/" >>

\* The sextet a character stands for; -1 for a character outside the
\* alphabet.
B64Value(c) ==
    IF \E i \in 1..Len(B64Chars) : B64Chars[i] = c
    THEN (CHOOSE i \in 1..Len(B64Chars) : B64Chars[i] = c) - 1
    ELSE -1

\* The decoder's loop from position i on: quad is the position in the
\* current group of four, left the bits carried over, pads the run of "="
\* seen, out the bytes produced.  Characters outside the alphabet are
\* skipped; padding that completes a group ends the decoding; input that
\* ends inside a group is an error.
RECURSIVE B64Walk(_, _, _, _, _, _)
B64Walk(s, i, quad, left, pads, out) ==
    IF i > Len(s) THEN [ok |-> quad = 0, bytes |-> out]
    ELSE IF s[i] = "=" THEN
        IF quad >= 2 /\ quad + pads + 1 >= 4
        THEN [ok |-> TRUE, bytes |-> out]
        ELSE B64Walk(s, i + 1, quad, left,
                     IF quad >= 2 THEN pads + 1 ELSE pads, out)
    ELSE LET v == B64Value(s[i]) IN
        IF v < 0 THEN B64Walk(s, i + 1, quad, left, pads, out)
        ELSE IF quad = 0 THEN B64Walk(s, i + 1, 1, v, 0, out)
        ELSE IF quad = 1 THEN
            B64Walk(s, i + 1, 2, v % 16, 0,
                    Append(out, left * 4 + (v \div 16)))
        ELSE IF quad = 2 THEN
            B64Walk(s, i + 1, 3, v % 4, 0,
                    Append(out, left * 16 + (v \div 4)))
        ELSE B64Walk(s, i + 1, 0, 0, 0, Append(out, left * 64 + v))

\* The characters of the ASCII range.  A character is the one-character
\* string that holds it; the double quote, the backslash, the backtick,
\* the control characters and every character above U+007F are named by
\* their code point ("U+0022", "U+000A", "U+00E2"), so every name outside
\* this set is a character above U+007F.
AsciiChars ==
    {
      " ", "!", "U+0022", "#", "$", "%", "&", "'", "(", ")", "*", "+",
      ",", "-", ".", "/", "0", "1", "2", "3", "4", "5", "6", "7",
      "8", "9", ":", ";", "<", "=", ">", "?", "@", "A", "B", "C",
      "D", "E", "F", "G", "H", "I", "J", "K", "L", "M", "N", "O",
      "P", "Q", "R", "S", "T", "U", "V", "W", "X", "Y", "Z", "[",
      "U+005C", "]", "^", "_", "U+0060", "a", "b", "c", "d", "e", "f", "g",
      "h", "i", "j", "k", "l", "m", "n", "o", "p", "q", "r", "s",
      "t", "u", "v", "w", "x", "y", "z", "{", "|", "}", "~",
      "U+0000", "U+0001", "U+0002", "U+0003", "U+0004", "U+0005", "U+0006", "U+0007",
      "U+0008", "U+0009", "U+000A", "U+000B", "U+000C", "U+000D", "U+000E", "U+000F",
      "U+0010", "U+0011", "U+0012", "U+0013", "U+0014", "U+0015", "U+0016", "U+0017",
      "U+0018", "U+0019", "U+001A", "U+001B", "U+001C", "U+001D", "U+001E", "U+001F",
      "U+007F" }

\* s.encode("ascii") in base64._bytes_from_decode_data succeeds
IsAscii(s) == \A i \in 1..Len(s) : s[i] \in AsciiChars

\* base64.b64decode(s) on a str: ok is FALSE where the call raises
\* ValueError, either for a character outside ASCII, before any decoding, or
\* as binascii.Error from the decoder.
B64Decode(s) ==
    IF ~IsAscii(s) THEN [ok |-> FALSE, bytes |-> <<>>]
    ELSE B64Walk(s, 1, 0, 0, 0, <<>>)

----------------------------------------------------------------------------
(* Messages *)

\* The absent value of a JSON field (a missing key or null).
NoAudio == <<"null">>

\* An inbound message: parses is FALSE where json.loads raises; otherwise
\* audio and isFinal are what data.get("audio") and data.get("isFinal")
\* return.
InMsg(parses, audio, isFinal) ==
    [parses |-> parses, audio |-> audio, isFinal |-> isFinal]

AudioA      == InMsg(TRUE, <<"Q", "Q", "=", "=">>, FALSE)   \* b"A"
AudioBC     == InMsg(TRUE, <<"Q", "k", "M", "=">>, FALSE)   \* b"BC"
AudioEmpty  == InMsg(TRUE, <<"=">>, FALSE)                  \* decodes to b""
AudioBadPad == InMsg(TRUE, <<"Q", "Q", "=">>, FALSE)        \* binascii.Error
FinalMsg    == InMsg(TRUE, NoAudio, TRUE)
AudioFinal  == InMsg(TRUE, <<"Q", "g", "=", "=">>, TRUE)    \* b"B", and final
OtherMsg    == InMsg(TRUE, NoAudio, FALSE)                  \* e.g. {}
Garbage     == InMsg(FALSE, NoAudio, FALSE)                 \* not JSON

InboundMsgs ==
    { AudioA, AudioBC, AudioEmpty, AudioBadPad, FinalMsg, AudioFinal,
      OtherMsg, Garbage }

\* Truthiness of data.get("audio"): present and a non-empty string.
HasAudio(m) == m.audio /= NoAudio /\ m.audio /= <<>>

\* Outbound messages.  handshake stands for the xi_api_key and
\* voice_settings fields, which only the first message carries.
HandshakeMessage ==
    [text |-> <<" ">>, handshake |-> TRUE, try_trigger_generation |-> FALSE]

ChunkMessage(text_entry) ==
    [text |-> text_entry, handshake |-> FALSE, try_trigger_generation |-> TRUE]

TerminatorMessage ==
    [text |-> <<>>, handshake |-> FALSE, try_trigger_generation |-> FALSE]

----------------------------------------------------------------------------
(* listen: what one received message does to the loop *)

\* The body of the try block for a message recv returned: json.loads, then
\* the audio test, else the isFinal test.  Only ConnectionClosed is caught,
\* so a parse or decode error leaves the generator.
ListenStep(m) ==
    IF ~m.parses THEN [outcome |-> "raise", chunk |-> <<>>, err |-> "parse"]
    ELSE IF HasAudio(m) THEN
        LET d == B64Decode(m.audio) IN
        IF d.ok THEN [outcome |-> "yield", chunk |-> d.bytes, err |-> "none"]
        ELSE [outcome |-> "raise", chunk |-> <<>>, err |-> "decode"]
    ELSE IF m.isFinal THEN [outcome |-> "break", chunk |-> <<>>, err |-> "none"]
    ELSE [outcome |-> "continue", chunk |-> <<>>, err |-> "none"]

\* Mutant of RecvClosed: the closed connection is not caught.
RecvClosedRaises == [outcome |-> "raise", chunk |-> <<>>, err |-> "closed"]

\* recv raised ConnectionClosed: the except clause breaks out of the loop.
RecvClosed == [outcome |-> "break", chunk |-> <<>>, err |-> "none"]

----------------------------------------------------------------------------
(* stream: the sink's write of one chunk *)

\* Mutant of FileWrite: the chunk lands before what was written.
FileWriteAtFront(f, chunk) == chunk \o f

\* f.write(chunk)
FileWrite(f, chunk) == f \o chunk

\* Mutant of PlayerWrite: the frame reaches mpv twice.
PlayerWriteTwice(p, chunk) == p \o chunk \o chunk

\* mpv_process.stdin.write(chunk); flush()
PlayerWrite(p, chunk) == p \o chunk

----------------------------------------------------------------------------
(* Inputs *)

MaxFrags == 3

\* Fragments fed to the segmenter: empty, single markers, plain text, text
\* around markers, and the pieces of the three-character splitter.
Fragments ==
    { <<>>, <<".">>, <<" ">>, <<"a">>, <<"a", "b">>, <<"a", ".">>,
      <<".", "a">>, <<" ", "a">>, <<".", " ">>,
      <<"U+00E2">>, <<"U+20AC", "U+201D">>,
      <<"U+00E2", "U+20AC", "U+201D", "a">> }

\* The example of the boundary-placement property.
HelloWorldNext ==
    << <<"H", "e", "l", "l", "o">>,
       <<" ", "w", "o", "r", "l", "d", ".">>,
       <<" ", "N", "e", "x", "t">> >>

ChunkerInputs == SeqsUpTo(Fragments, MaxFrags) \cup {HelloWorldNext}

----------------------------------------------------------------------------
(* The state of a session before stream_text_to_speech is called *)

SessionIdle ==
    /\ mainPc = "idle"
    /\ mainErr = "none"
    /\ pending = <<>>
    /\ conn = "none"
    /\ sent = <<>>
    /\ inbox = <<>>
    /\ keyRejected = FALSE
    /\ received = <<>>
    /\ lisPc = "none"
    /\ lisEnd = "none"
    /\ lisErr = "none"
    /\ cur = <<>>
    /\ file = <<>>
    /\ fileState = "none"
    /\ player = <<>>
    /\ stdinState = "none"
    /\ playerExited = FALSE
    /\ closeLog = <<>>

----------------------------------------------------------------------------
(* The segmenter driven on its own: one action per fragment, then flush *)

InitChunker ==
    /\ source \in ChunkerInputs
    /\ fed = <<>>
    /\ buffer = <<>>
    /\ emitted = <<>>
    /\ chunkerPc = "loop"
    /\ SessionIdle

\* The async for takes a fragment.  Without a yield the fragment is appended
\* to the buffer (line 181); with one, the generator is suspended at the
\* yield, the chunk handed to the consumer and the buffer not yet assigned.
ChunkerFeed ==
    /\ chunkerPc = "loop"
    /\ source /= <<>>
    /\ LET r == TextChunkerStep(buffer, Head(source))
       IN  /\ emitted' = emitted \o r.out
           /\ IF r.out = <<>>
              THEN /\ buffer' = r.buffer
                   /\ chunkerPc' = "loop"
              ELSE /\ buffer' = buffer
                   /\ chunkerPc' = "yield"
    /\ fed' = Append(fed, Head(source))
    /\ source' = Tail(source)
    /\ UNCHANGED sessionVars

\* The consumer asks for the next chunk: the suspended generator goes on.
ChunkerResume ==
    /\ chunkerPc \in {"yield", "flush"}
    /\ LET g == ResumeGenerator(chunkerPc, buffer, fed)
       IN  /\ buffer' = g.buffer
           /\ chunkerPc' = g.pc
    /\ UNCHANGED <<source, fed, emitted, sessionVars>>

\* The input is exhausted: what is buffered, if anything, is yielded.
ChunkerFlush ==
    /\ chunkerPc = "loop"
    /\ source = <<>>
    /\ emitted' = emitted \o TextChunkerFlush(buffer)
    /\ chunkerPc' = IF TextChunkerFlush(buffer) /= <<>> THEN "flush" ELSE "done"
    /\ UNCHANGED <<source, fed, buffer, sessionVars>>

NextChunker == ChunkerFeed \/ ChunkerResume \/ ChunkerFlush

SpecChunker == InitChunker /\ [][NextChunker]_vars

----------------------------------------------------------------------------
(* The session: stream_text_to_speech (main task), listen_task running    *)
(* stream(listen()), the remote endpoint and the player process.  The two *)
(* tasks share one event loop: a task runs from one await to the next, so *)
(* the main task does not run while stream() is between awaits.           *)

MaxInbound == 2

\* Text streams passed to stream_text_to_speech: no chunk, one chunk, two
\* chunks, and a stream with an empty fragment.
SessionTexts ==
    { <<>>,
      << <<"a">> >>,
      << <<"a", ".">>, <<"b">> >>,
      << <<".">>, <<>>, <<"a">> >> }

Init ==
    /\ source \in SessionTexts
    /\ fed = <<>>
    /\ buffer = <<>>
    /\ emitted = <<>>
    /\ chunkerPc = "loop"
    /\ SessionIdle

\* Positions of stream() that are not awaits.
SyncSteps == {"wfile", "wplayer", "cstdin", "wait", "fclose"}

MainFinished == mainPc \in {"returned", "raised"}

ListenFinished == lisPc \in {"done", "failed", "cancelled"}

MainCanRun == lisPc \notin SyncSteps

\* websockets.connect(uri)
Connect ==
    /\ mainPc = "idle"
    /\ conn' = "open"
    /\ mainPc' = "handshake"
    /\ UNCHANGED <<chunkerVars, mainErr, pending, sent, inbox, keyRejected,
                   listenVars, sinkVars, playerExited>>

\* Mutant of SendHandshake: the main task goes on without sending it.
SendHandshakeSkipped ==
    /\ mainPc = "handshake"
    /\ MainCanRun
    /\ mainPc' = "spawn"
    /\ UNCHANGED <<chunkerVars, mainErr, pending, sent, netVars, listenVars,
                   sinkVars, playerExited>>

\* await websocket.send(json.dumps(message)): the handshake
SendHandshake ==
    /\ mainPc = "handshake"
    /\ MainCanRun
    /\ IF conn = "open"
       THEN /\ sent' = Append(sent, HandshakeMessage)
            /\ mainPc' = "spawn"
            /\ UNCHANGED mainErr
       ELSE /\ mainErr' = "send"
            /\ mainPc' = "exit"
            /\ UNCHANGED sent
    /\ UNCHANGED <<chunkerVars, pending, netVars, listenVars, sinkVars,
                   playerExited>>

\* listen_task = asyncio.create_task(stream(listen()))
CreateListenTask ==
    /\ mainPc = "spawn"
    /\ lisPc' = "created"
    /\ mainPc' = "pull"
    /\ UNCHANGED <<chunkerVars, mainErr, pending, sent, netVars, received,
                   lisEnd, lisErr, sinkVars, playerExited>>

\* The async for over text_chunker(text) takes one fragment from the input.
PullFragment ==
    /\ mainPc = "pull"
    /\ MainCanRun
    /\ chunkerPc = "loop"
    /\ source /= <<>>
    /\ LET r == TextChunkerStep(buffer, Head(source))
       IN  /\ emitted' = emitted \o r.out
           /\ pending' = r.out
           /\ IF r.out = <<>>
              THEN /\ buffer' = r.buffer
                   /\ chunkerPc' = "loop"
                   /\ mainPc' = "pull"
              ELSE /\ buffer' = buffer
                   /\ chunkerPc' = "yield"
                   /\ mainPc' = "send"
    /\ fed' = Append(fed, Head(source))
    /\ source' = Tail(source)
    /\ UNCHANGED <<mainErr, sent, netVars, listenVars, sinkVars,
                   playerExited>>

\* The input is exhausted: text_chunker yields what is buffered, if
\* anything, and ends.
PullEnd ==
    /\ mainPc = "pull"
    /\ MainCanRun
    /\ chunkerPc = "loop"
    /\ source = <<>>
    /\ LET out == TextChunkerFlush(buffer)
       IN  /\ emitted' = emitted \o out
           /\ pending' = out
           /\ mainPc' = IF out /= <<>> THEN "send" ELSE "term"
           /\ chunkerPc' = IF out /= <<>> THEN "flush" ELSE "done"
    /\ UNCHANGED <<source, fed, buffer, mainErr, sent, netVars, listenVars,
                   sinkVars, playerExited>>

\* Mutant of AfterSend: the loop is left after the first chunk sent.
AfterSendLeavesLoop(cpc) == "term"

\* Where the main task goes after a chunk is sent: back into the generator,
\* or, the generator having ended, on to the terminator.
AfterSend(cpc) == IF cpc = "done" THEN "term" ELSE "pull"

\* await websocket.send(json.dumps({"text": text_entry, ...})).  When the
\* send returns the async for asks the generator for the next chunk, which
\* resumes it after the yield it was suspended at; when the send raises the
\* generator is not resumed.
SendChunk ==
    /\ mainPc = "send"
    /\ MainCanRun
    /\ IF conn = "open"
       THEN /\ sent' = Append(sent, ChunkMessage(pending[1]))
            /\ LET g == ResumeGenerator(chunkerPc, buffer, fed)
               IN  /\ buffer' = g.buffer
                   /\ chunkerPc' = g.pc
                   /\ mainPc' = AfterSend(g.pc)
            /\ UNCHANGED mainErr
            /\ pending' = <<>>
       ELSE /\ mainErr' = "send"
            /\ mainPc' = "exit"
            /\ UNCHANGED <<sent, pending, buffer, chunkerPc>>
    /\ UNCHANGED <<source, fed, emitted, netVars, listenVars, sinkVars,
                   playerExited>>

\* await websocket.send(json.dumps({"text": ""}))
SendTerminator ==
    /\ mainPc = "term"
    /\ MainCanRun
    /\ IF conn = "open"
       THEN /\ sent' = Append(sent, TerminatorMessage)
            /\ mainPc' = "join"
            /\ UNCHANGED mainErr
       ELSE /\ mainErr' = "send"
            /\ mainPc' = "exit"
            /\ UNCHANGED sent
    /\ UNCHANGED <<chunkerVars, pending, netVars, listenVars, sinkVars,
                   playerExited>>

\* await listen_task: returns once the task is done, re-raising what the
\* task raised.
AwaitListenTask ==
    /\ mainPc = "join"
    /\ lisPc \in {"done", "failed", "cancelled"}
    /\ mainErr' = CASE lisPc = "cancelled" -> "interrupt"
                    [] lisPc = "failed" -> "listener"
                    [] OTHER -> mainErr
    /\ mainPc' = "exit"
    /\ UNCHANGED <<chunkerVars, pending, sent, netVars, listenVars, sinkVars,
                   playerExited>>

\* The effect of CancelledError on listen_task, which can only be waiting
\* in recv or not yet started: the with statement closes the file on the
\* way out; nothing closes mpv's stdin or waits for mpv.
CancelListenTask ==
    /\ lisPc' = "cancelled"
    /\ lisErr' = "cancelled"
    /\ IF fileState = "open"
       THEN /\ fileState' = "closed"
            /\ closeLog' = Append(closeLog, "file.close")
       ELSE UNCHANGED <<fileState, closeLog>>
    /\ UNCHANGED <<received, lisEnd, cur, file, player, stdinState>>

\* The driving task is interrupted: asyncio.run cancels the main task while
\* it waits at one of its awaits.
\*  - In connect (line 192) there is no connection yet and no __aexit__: the
\*    main task raises at once.
\*  - In a send, or in the async for, CancelledError leaves through the
\*    async with.
\*  - In await listen_task (line 220) with listen_task still pending, the
\*    cancellation is passed on to listen_task first; the main task stays
\*    in the await and is woken, with CancelledError, once listen_task has
\*    ended (AwaitListenTask).  With listen_task already over, the main
\*    task gets CancelledError itself.
\*  - While the async with is being left, CancelledError comes out of
\*    __aexit__ and the connection is dropped.
Interrupt ==
    /\ mainPc \in {"idle", "handshake", "pull", "send", "term", "join",
                   "exit", "closing"}
    /\ mainErr /= "interrupt"
    /\ MainCanRun
    /\ mainErr' = "interrupt"
    /\ CASE mainPc = "idle" ->
              /\ mainPc' = "raised"
              /\ UNCHANGED <<conn, listenVars, sinkVars>>
         [] mainPc \in {"exit", "closing"} ->
              /\ mainPc' = "raised"
              /\ conn' = "closed"
              /\ UNCHANGED <<listenVars, sinkVars>>
         [] mainPc = "join" /\ lisPc \in {"created", "recv"} ->
              /\ CancelListenTask
              /\ UNCHANGED <<mainPc, conn>>
         [] OTHER ->
              /\ mainPc' = "exit"
              /\ UNCHANGED <<conn, listenVars, sinkVars>>
    /\ UNCHANGED <<chunkerVars, pending, sent, inbox, keyRejected,
                   playerExited>>

\* Leaving the async with block starts closing the connection ...
ExitConnection ==
    /\ mainPc = "exit"
    /\ MainCanRun
    /\ conn' = "closed"
    /\ mainPc' = "closing"
    /\ UNCHANGED <<chunkerVars, mainErr, pending, sent, inbox, keyRejected,
                   listenVars, sinkVars, playerExited>>

\* ... and once it is closed stream_text_to_speech returns or raises.
Return ==
    /\ mainPc = "closing"
    /\ MainCanRun
    /\ mainPc' = IF mainErr = "none" THEN "returned" ELSE "raised"
    /\ UNCHANGED <<chunkerVars, mainErr, pending, sent, netVars, listenVars,
                   sinkVars, playerExited>>

\* asyncio.run, the main task being done, cancels the tasks still pending.
\* Until then listen_task goes on running whatever step it is ready for: the
\* end of the main task does not stop it.
RunnerCancelsListenTask ==
    /\ MainFinished
    /\ lisPc \in {"created", "recv"}
    /\ CancelListenTask
    /\ UNCHANGED <<chunkerVars, mainVars, netVars, playerExited>>

\* stream() starts: open(filename, "wb"), then subprocess.Popen(mpv).  With
\* no mpv on PATH Popen raises FileNotFoundError: the with statement closes
\* the file just opened, no process exists and listen is never started.
OpenSink ==
    /\ lisPc = "created"
    /\ \E launched \in BOOLEAN :
          IF launched
          THEN /\ fileState' = "open"
               /\ stdinState' = "open"
               /\ lisPc' = "recv"
               /\ UNCHANGED <<lisErr, closeLog>>
          ELSE /\ fileState' = "closed"
               /\ closeLog' = Append(closeLog, "file.close")
               /\ lisPc' = "failed"
               /\ lisErr' = "spawn"
               /\ UNCHANGED stdinState
    /\ UNCHANGED <<chunkerVars, mainVars, netVars, received, lisEnd, cur,
                   file, player, playerExited>>

\* What stream() does with the outcome r of one turn of listen's loop.
\* A yielded chunk is written only if it is non-empty (if chunk:).  An
\* exception leaves stream() through the with statement, which closes the
\* file.
StreamTakes(r, how) ==
    /\ lisPc' = CASE r.outcome = "yield" /\ r.chunk /= <<>> -> "wfile"
                  [] r.outcome = "break" -> "cstdin"
                  [] r.outcome = "raise" -> "failed"
                  [] OTHER -> "recv"
    /\ cur' = IF r.outcome = "yield" THEN r.chunk ELSE <<>>
    /\ lisEnd' = IF r.outcome = "break" THEN how ELSE lisEnd
    /\ lisErr' = IF r.outcome = "raise" THEN r.err ELSE lisErr
    /\ IF r.outcome = "raise"
       THEN /\ fileState' = "closed"
            /\ closeLog' = Append(closeLog, "file.close")
       ELSE UNCHANGED <<fileState, closeLog>>

\* message = await websocket.recv() returns the next message
RecvMessage ==
    /\ lisPc = "recv"
    /\ inbox /= <<>>
    /\ received' = Append(received, Head(inbox))
    /\ inbox' = Tail(inbox)
    /\ StreamTakes(ListenStep(Head(inbox)), "final")
    /\ UNCHANGED <<chunkerVars, mainVars, conn, keyRejected, file, player,
                   stdinState, playerExited>>

\* await websocket.recv() raises ConnectionClosed: every message that
\* arrived has been returned and the connection is closed.
RecvConnectionClosed ==
    /\ lisPc = "recv"
    /\ inbox = <<>>
    /\ conn = "closed"
    /\ StreamTakes(RecvClosed, "closed")
    /\ UNCHANGED <<chunkerVars, mainVars, netVars, received, file, player,
                   stdinState, playerExited>>

\* f.write(chunk)
WriteFile ==
    /\ lisPc = "wfile"
    /\ file' = FileWrite(file, cur)
    /\ lisPc' = "wplayer"
    /\ UNCHANGED <<chunkerVars, mainVars, netVars, received, lisEnd, lisErr,
                   cur, fileState, player, stdinState, closeLog,
                   playerExited>>

\* mpv_process.stdin.write(chunk); mpv_process.stdin.flush().  With mpv
\* gone the pipe is broken and BrokenPipeError leaves stream().
WritePlayer ==
    /\ lisPc = "wplayer"
    /\ IF ~playerExited
       THEN /\ player' = PlayerWrite(player, cur)
            /\ lisPc' = "recv"
            /\ UNCHANGED <<lisErr, fileState, closeLog>>
       ELSE /\ lisPc' = "failed"
            /\ lisErr' = "pipe"
            /\ fileState' = "closed"
            /\ closeLog' = Append(closeLog, "file.close")
            /\ UNCHANGED player
    /\ cur' = <<>>
    /\ UNCHANGED <<chunkerVars, mainVars, netVars, received, lisEnd, file,
                   stdinState, playerExited>>

\* mpv_process.stdin.close()
CloseStdin ==
    /\ lisPc = "cstdin"
    /\ stdinState' = "closed"
    /\ closeLog' = Append(closeLog, "stdin.close")
    /\ lisPc' = "wait"
    /\ UNCHANGED <<chunkerVars, mainVars, netVars, received, lisEnd, lisErr,
                   cur, file, fileState, player, playerExited>>

\* mpv_process.wait()
WaitPlayer ==
    /\ lisPc = "wait"
    /\ closeLog' = Append(closeLog, "wait")
    /\ lisPc' = "fclose"
    /\ UNCHANGED <<chunkerVars, mainVars, netVars, received, lisEnd, lisErr,
                   cur, file, fileState, player, stdinState, playerExited>>

\* End of the with block: the file is closed and stream() returns.
CloseFile ==
    /\ lisPc = "fclose"
    /\ fileState' = "closed"
    /\ closeLog' = Append(closeLog, "file.close")
    /\ lisPc' = "done"
    /\ UNCHANGED <<chunkerVars, mainVars, netVars, received, lisEnd, lisErr,
                   cur, file, player, stdinState, playerExited>>

\* The remote endpoint sends a message.
RemoteSend ==
    /\ conn = "open"
    /\ Len(inbox) + Len(received) < MaxInbound
    /\ \E m \in InboundMsgs : inbox' = Append(inbox, m)
    /\ UNCHANGED <<chunkerVars, mainVars, conn, keyRejected, listenVars,
                   sinkVars, playerExited>>

\* The remote endpoint closes the connection.
RemoteClose ==
    /\ conn = "open"
    /\ conn' = "closed"
    /\ UNCHANGED <<chunkerVars, mainVars, inbox, keyRejected, listenVars,
                   sinkVars, playerExited>>

\* The remote endpoint rejects the xi_api_key of the handshake: its first
\* reply is an error message (no audio, no isFinal), and it closes the
\* connection.
RemoteRejectsKey ==
    /\ conn = "open"
    /\ sent /= <<>>
    /\ inbox = <<>>
    /\ received = <<>>
    /\ inbox' = <<OtherMsg>>
    /\ conn' = "closed"
    /\ keyRejected' = TRUE
    /\ UNCHANGED <<chunkerVars, mainVars, listenVars, sinkVars, playerExited>>

\* mpv exits before its stdin is closed.
PlayerExits ==
    /\ stdinState = "open"
    /\ ~playerExited
    /\ playerExited' = TRUE
    /\ UNCHANGED <<chunkerVars, mainVars, netVars, listenVars, sinkVars>>

Next ==
    \/ Connect
    \/ SendHandshake
    \/ CreateListenTask
    \/ PullFragment
    \/ PullEnd
    \/ SendChunk
    \/ SendTerminator
    \/ AwaitListenTask
    \/ Interrupt
    \/ ExitConnection
    \/ Return
    \/ RunnerCancelsListenTask
    \/ OpenSink
    \/ RecvMessage
    \/ RecvConnectionClosed
    \/ WriteFile
    \/ WritePlayer
    \/ CloseStdin
    \/ WaitPlayer
    \/ CloseFile
    \/ RemoteSend
    \/ RemoteClose
    \/ RemoteRejectsKey
    \/ PlayerExits

Spec == Init /\ [][Next]_vars

\* The steps of the main task (the coroutine stream_text_to_speech run by
\* asyncio.run) and of listen_task.  The event loop runs every task that is
\* ready, so a step of either task that stays enabled is eventually taken.
\* The remote endpoint, mpv and an external interrupt are under no such
\* obligation.
MainTaskStep ==
    \/ Connect
    \/ SendHandshake
    \/ CreateListenTask
    \/ PullFragment
    \/ PullEnd
    \/ SendChunk
    \/ SendTerminator
    \/ AwaitListenTask
    \/ ExitConnection
    \/ Return

ListenTaskStep ==
    \/ OpenSink
    \/ RecvMessage
    \/ RecvConnectionClosed
    \/ WriteFile
    \/ WritePlayer
    \/ CloseStdin
    \/ WaitPlayer
    \/ CloseFile

FairSpec ==
    /\ Init
    /\ [][Next]_vars
    /\ WF_vars(MainTaskStep)
    /\ WF_vars(ListenTaskStep)

----------------------------------------------------------------------------
(* Claims *)

\* A chunk without the one space text_chunker added at its end.
WithoutAddedSpace(chunk) == SubSeq(chunk, 1, Len(chunk) - 1)

RECURSIVE StripAll(_)
StripAll(cs) ==
    IF cs = <<>> THEN <<>>
    ELSE <<WithoutAddedSpace(Head(cs))>> \o StripAll(Tail(cs))

\* The text not yet emitted: the buffer, or, while the generator is
\* suspended at a mid-stream yield, the part of the fragment taken last that
\* the chunk does not hold.
Held ==
    IF chunkerPc = "yield"
    THEN IF EndsWithAny(buffer, splitters)
         THEN fed[Len(fed)]
         ELSE Tail(fed[Len(fed)])
    ELSE buffer

\* C1: content preservation.  Every emitted chunk ends with the added space;
\* while fragments are fed, the emitted chunks without that space, followed
\* by the text not yet emitted, spell the fragments consumed so far; and
\* once the flush has run the emitted chunks without that space spell the
\* whole input.
C1_ContentPreserved ==
    /\ \A i \in 1..Len(emitted) :
          /\ Len(emitted[i]) >= 1
          /\ emitted[i][Len(emitted[i])] = " "
    /\ chunkerPc \in {"loop", "yield"} =>
          Flatten(StripAll(emitted)) \o Held = Flatten(fed)
    /\ chunkerPc \in {"flush", "done"} =>
          Flatten(StripAll(emitted)) = Flatten(fed)

\* C1 witness: a finished run that consumed an empty fragment and a
\* single-marker fragment and emitted mid-stream chunks and a flush chunk.
C1_Witness ==
    /\ chunkerPc = "done"
    /\ \E i \in 1..Len(fed) : fed[i] = <<>>
    /\ \E i \in 1..Len(fed) : fed[i] = <<".">>
    /\ Len(emitted) >= 2
    /\ buffer /= <<>>

----------------------------------------------------------------------------
(* Session claims *)

\* The messages sent after the handshake.
Body == IF sent = <<>> THEN <<>> ELSE Tail(sent)

TerminatorSent == Body /= <<>> /\ Body[Len(Body)].text = <<>>

\* The outbound side has finished without a failed send or an interrupt.
OutboundFinished ==
    \/ mainPc = "join"
    \/ mainPc \in {"exit", "closing", "returned", "raised"}
         /\ mainErr \in {"none", "listener"}

\* C2: outbound framing.  After the handshake the messages sent are the
\* chunks text_chunker has yielded, in its order, each once, each with
\* non-empty text and try_trigger_generation true, then at most one
\* empty-text terminator in last position; the terminator is sent only when
\* the generator has ended and every chunk of the whole text has been sent;
\* and the outbound side finishes only with the terminator sent.
C2_OutboundFraming ==
    LET n == Len(emitted) - Len(pending)
        m == Len(Body)
    IN  /\ sent /= <<>> => sent[1] = HandshakeMessage
        /\ m = n + (IF TerminatorSent THEN 1 ELSE 0)
        /\ \A i \in 1..m :
              i <= n =>
                /\ Body[i].text = emitted[i]
                /\ Body[i].text /= <<>>
                /\ Body[i].try_trigger_generation = TRUE
                /\ Body[i].handshake = FALSE
        /\ TerminatorSent =>
              /\ Body[m] = TerminatorMessage
              /\ chunkerPc = "done"
              /\ source = <<>>
              /\ pending = <<>>
              /\ emitted = TextChunker(fed)
        /\ OutboundFinished => TerminatorSent

\* C2 witness: a session that returned after sending two chunks and the
\* terminator.
C2_Witness ==
    /\ mainPc = "returned"
    /\ Len(emitted) = 2
    /\ sent = << HandshakeMessage, ChunkMessage(emitted[1]),
                 ChunkMessage(emitted[2]), TerminatorMessage >>

\* The decoded audio payloads of the audio-carrying messages among msgs,
\* concatenated in order.
RECURSIVE Payloads(_)
Payloads(msgs) ==
    IF msgs = <<>> THEN <<>>
    ELSE LET m == Head(msgs)
         IN  (IF m.parses /\ HasAudio(m) /\ B64Decode(m.audio).ok
              THEN B64Decode(m.audio).bytes ELSE <<>>)
             \o Payloads(Tail(msgs))

\* C3: frame ordering.  Without a failed player write, whenever stream() is
\* between frames, and from the moment it closes the sink, the file and the
\* player's input each hold exactly the decoded payloads of the audio
\* messages received, in arrival order.
C3_FrameOrder ==
    (lisPc \in {"recv", "cstdin", "wait", "fclose", "done"} /\ lisErr /= "pipe")
        => /\ file = Payloads(received)
           /\ player = Payloads(received)

\* C3 witness: the sink closed after two frames that arrived as BC, then A.
C3_Witness ==
    /\ lisPc = "done"
    /\ received = <<AudioBC, AudioA>>
    /\ file = <<66, 67, 65>>
    /\ player = <<66, 67, 65>>

\* C4: run joins the listener.  When stream_text_to_speech has returned or
\* raised (other than by an interrupt), listen_task is no longer active.
C4_RunJoinsListener ==
    (MainFinished /\ mainErr /= "interrupt")
        => lisPc \in {"none", "done", "failed", "cancelled"}

\* How often a close step has run.
Times(step) == Cardinality({i \in 1..Len(closeLog) : closeLog[i] = step})

AllClosedOnce ==
    /\ Times("stdin.close") = 1
    /\ Times("wait") = 1
    /\ Times("file.close") = 1

\* C5: cleanup on listener error.  When the session has ended after the
\* listener stopped on an unparseable message, mpv's stdin was closed, mpv
\* was waited on and the file was closed, each exactly once.
C5_CleanupOnParseError ==
    (lisErr = "parse" /\ MainFinished) => AllClosedOnce

\* C6: playback failure does not abort persistence.  After a failed write
\* to mpv's stdin the file stays open for the frames still to come until
\* listen's loop has ended.
C6_PersistenceSurvivesPlayerFailure ==
    lisErr = "pipe" => (fileState = "open" \/ lisEnd /= "none")

\* C7: teardown on every exit path.  When a session whose sink was opened
\* has ended (normally, after a failed send, or after an interrupt; the
\* listener itself not having failed), the file is closed, mpv's stdin is
\* closed and mpv was waited on.
C7_TeardownOnEveryExit ==
    (/\ MainFinished
     /\ ListenFinished
     /\ fileState /= "none"
     /\ lisErr \in {"none", "cancelled"})
        => /\ fileState = "closed"
           /\ stdinState = "closed"
           /\ Times("wait") = 1

\* C8: the final flag ends the listener.  A received message that carries
\* isFinal is the last message received, and after it the listener is not
\* back at recv.
C8_FinalEndsListener ==
    \A i \in 1..Len(received) :
        (received[i].parses /\ received[i].isFinal)
            => /\ i = Len(received)
               /\ lisPc /= "recv"

\* ConnectionClosed reached listen: caught (the loop ended on it) or not.
ClosureObserved == lisEnd = "closed" \/ lisErr = "closed"

\* C9: connection closure is normal termination.  Once recv has raised
\* ConnectionClosed the listener raises nothing and goes through the close
\* steps; when stream() is done mpv's stdin was closed, mpv waited on and
\* the file closed, in that order and once each, with every frame received
\* in the file; and if the terminator had been sent and nothing interrupted
\* the main task, stream_text_to_speech returns without error.
C9_ClosureIsNormal ==
    ClosureObserved =>
        /\ lisErr = "none"
        /\ lisPc \in {"cstdin", "wait", "fclose", "done"}
        /\ lisPc = "done" =>
              /\ closeLog = <<"stdin.close", "wait", "file.close">>
              /\ stdinState = "closed"
              /\ fileState = "closed"
              /\ file = Payloads(received)
        /\ (MainFinished /\ TerminatorSent /\ mainErr /= "interrupt")
              => mainPc = "returned"

\* C9 witness: the remote closed the connection after a frame, the
\* terminator had been sent, and the session returned.
C9_Witness ==
    /\ lisEnd = "closed"
    /\ received = <<AudioA>>
    /\ file = <<65>>
    /\ TerminatorSent
    /\ mainPc = "returned"

\* C10: an unparseable message is a contained hard stop.  The listener
\* having stopped on an unparseable message, the file keeps what was written
\* before it, and a session that ends with no failed send and no interrupt
\* returns without error.
C10_ParseErrorContained ==
    lisErr = "parse" =>
        /\ file = Payloads(SubSeq(received, 1, Len(received) - 1))
        /\ (MainFinished /\ mainErr \notin {"send", "interrupt"})
              => mainPc = "returned"

\* C11: handshake first.  The first message sent is the handshake, which
\* alone carries the API key and voice settings; and until the handshake has
\* been sent no other message is sent, listen_task does not exist, the sink
\* is not opened and nothing is received.
C11_HandshakeFirst ==
    /\ sent /= <<>> =>
          /\ sent[1].handshake = TRUE
          /\ sent[1].text = <<" ">>
          /\ \A i \in 2..Len(sent) : sent[i].handshake = FALSE
    /\ sent = <<>> =>
          /\ lisPc = "none"
          /\ fileState = "none"
          /\ stdinState = "none"
          /\ received = <<>>
          /\ mainPc \in {"idle", "handshake", "exit", "closing", "raised"}

\* C11 witness: the handshake and a chunk have been sent, the sink is open
\* and the listener has received a message.
C11_Witness ==
    /\ Len(sent) >= 2
    /\ fileState = "open"
    /\ received /= <<>>

\* C12: rejected credentials stop the outbound side.  Once the remote has
\* rejected the API key, no send is attempted and fails, and the session
\* ends reporting an authentication error.
C12_RejectedKeyStopsSends ==
    keyRejected =>
        /\ mainErr /= "send"
        /\ MainFinished => mainErr = "auth"

\* listen's loop is over: it ended on the final signal or on the closed
\* connection, or listen_task finished in any way.
ListenLoopEnded == lisEnd /= "none" \/ ListenFinished

\* The lifecycle state of the session, as the spec defines the states:
\* Idle before the connection; Open from the connection until both loops
\* run; Streaming while the outbound loop and listen's loop are both active;
\* Draining once the terminator has been sent, while listen's loop still
\* runs; Closed once listen's loop is over or the session has let go of the
\* connection.
SessionState ==
    IF conn = "none" /\ mainPc /= "raised" THEN "Idle"
    ELSE IF ListenLoopEnded \/ mainPc \in {"closing", "returned", "raised"}
    THEN "Closed"
    ELSE IF lisPc = "none" THEN "Open"
    ELSE IF TerminatorSent THEN "Draining"
    ELSE "Streaming"

Rank(state) ==
    CASE state = "Idle" -> 0
      [] state = "Open" -> 1
      [] state = "Streaming" -> 2
      [] state = "Draining" -> 3
      [] state = "Closed" -> 4

\* C13: lifecycle order.  No step takes the session back to an earlier
\* state, and the step in which listen's loop ends, on the final signal or
\* on the closed connection, takes the session from Draining to Closed: the
\* terminator has been sent by then.
C13_LifecycleOrder ==
    [][ /\ Rank(SessionState') >= Rank(SessionState)
        /\ (lisEnd = "none" /\ lisEnd' /= "none")
              => /\ SessionState = "Draining"
                 /\ SessionState' = "Closed"
                 /\ TerminatorSent ]_vars

----------------------------------------------------------------------------
(* Segmenter claims *)

Contains(s, sub) ==
    \E i \in 1..(Len(s) - Len(sub) + 1) : SubSeq(s, i, i + Len(sub) - 1) = sub

NoMarkerIn(frag) == \A m \in splitters : ~Contains(frag, m)

\* C15: flush emits the remainder.  When no fed fragment contains a boundary
\* marker, nothing is emitted while fragments are fed, and at end of stream
\* exactly one chunk is emitted, the concatenation followed by one space, or
\* nothing when the concatenation is empty.
C15_FlushEmitsRemainder ==
    (\A i \in 1..Len(fed) : NoMarkerIn(fed[i]))
        => /\ chunkerPc \in {"loop", "yield"} => emitted = <<>>
           /\ chunkerPc \in {"flush", "done"} =>
                 emitted = IF Flatten(fed) = <<>> THEN <<>>
                           ELSE << Flatten(fed) \o <<" ">> >>

\* C16: an empty fragment is a no-op.  Feeding an empty fragment emits no
\* chunk and leaves the buffer unchanged, whatever the buffer holds.
C16_EmptyFragmentNoOp ==
    [][ /\ (/\ chunkerPc = "loop"
            /\ source /= <<>>
            /\ Head(source) = <<>>
            /\ source' = Tail(source))
           => (emitted' = emitted /\ buffer' = buffer /\ chunkerPc' = "loop")
        /\ (/\ chunkerPc = "yield"
            /\ fed[Len(fed)] = <<>>
            /\ chunkerPc' = "loop")
           => buffer' = buffer ]_vars

\* C20: mid-stream chunks end at a marker.  Feeding one fragment emits at
\* most one chunk; that chunk is text ending with a boundary marker followed
\* by the one added space; and when the buffer already ends with a marker the
\* chunk is the buffer and the fragment becomes the new buffer unsplit.
C20_MidStreamChunksEndAtMarker ==
    [][ /\ (/\ chunkerPc = "loop"
            /\ source /= <<>>
            /\ source' = Tail(source))
           => LET new == SubSeq(emitted', Len(emitted) + 1, Len(emitted'))
              IN  /\ SubSeq(emitted', 1, Len(emitted)) = emitted
                  /\ Len(new) <= 1
                  /\ \A i \in 1..Len(new) :
                        /\ Len(new[i]) >= 2
                        /\ new[i][Len(new[i])] = " "
                        /\ EndsWithAny(WithoutAddedSpace(new[i]), splitters)
                  /\ EndsWithAny(buffer, splitters)
                        => new = << buffer \o <<" ">> >>
        /\ (/\ chunkerPc = "yield"
            /\ chunkerPc' = "loop"
            /\ EndsWithAny(buffer, splitters))
           => buffer' = fed[Len(fed)] ]_vars

----------------------------------------------------------------------------
(* Sink and termination claims *)

\* C17: the sink brackets the listener.  The file is open and mpv is launched
\* before the first receive; no frame is written once a close step has run;
\* the close steps run only after listen's loop has ended, none of them more
\* than once; and once a session whose sink was opened is over, each of the
\* three close steps has run exactly once.
C17_SinkBracketsListener ==
    /\ received /= <<>> => (fileState /= "none" /\ stdinState /= "none")
    /\ lisPc \in {"wfile", "wplayer"}
          => (fileState = "open" /\ stdinState = "open" /\ closeLog = <<>>)
    /\ closeLog /= <<>> => ListenLoopEnded
    /\ \A step \in {"stdin.close", "wait", "file.close"} : Times(step) <= 1
    /\ (/\ MainFinished
        /\ ListenFinished
        /\ fileState /= "none"
        /\ stdinState /= "none")
          => AllClosedOnce

\* The frame carried by the message received last.
LastFrame ==
    IF received = <<>> THEN <<>>
    ELSE ListenStep(received[Len(received)]).chunk

\* C19: the file never lags the player.  The bytes written to mpv's stdin
\* are a prefix of the bytes written to the file, and the file is ahead by at
\* most one frame: by nothing, by the frame being written between f.write and
\* stdin.write, or by the frame whose write to mpv's stdin failed.
C19_FileNeverLagsPlayer ==
    /\ StartsWith(file, player)
    /\ \/ file = player
       \/ lisPc = "wplayer" /\ file = player \o cur
       \/ lisErr = "pipe" /\ file = player \o LastFrame

\* C19 witness: the second frame is in the file and not yet in mpv's stdin.
C19_Witness ==
    /\ lisPc = "wplayer"
    /\ player = <<65>>
    /\ file = <<65, 66, 67>>

\* The remote endpoint has sent the terminal message {"isFinal": true} or
\* the connection is closed.
RemoteEnded ==
    \/ conn = "closed"
    \/ \E i \in 1..Len(received \o inbox) : (received \o inbox)[i] = FinalMsg

\* A send failed, the main task was interrupted, or the listener stopped on
\* an exception.
SessionFailed ==
    \/ mainErr \in {"send", "interrupt"}
    \/ lisErr \in {"parse", "decode", "pipe", "cancelled"}

SessionCompleted ==
    /\ TerminatorSent
    /\ lisPc = "done"
    /\ fileState = "closed"
    /\ stdinState = "closed"
    /\ mainPc = "returned"

\* C18: session termination.  Under fair scheduling of the two tasks, once
\* the remote endpoint has sent the terminal final message or the connection
\* is closed, then, unless a send, the parsing of a message or a write to
\* mpv fails or the session is interrupted, eventually the terminator has
\* been sent, the listener has terminated, the sink is closed and
\* stream_text_to_speech has returned.
C18_SessionTerminates == RemoteEnded ~> (SessionCompleted \/ SessionFailed)

====
